---- MODULE Spec2Model ----
(***************************************************************************)
(* armspeech/bisque/distribute.py: DAG nodes (Jobs and Artifacts), their   *)
(* memoized identity hash (secHash), ancestor traversal, and the           *)
(* persistence contract of the four artifact variants.                     *)
(***************************************************************************)
EXTENDS Integers, Sequences, FiniteSets, TLC

VARIABLES
    node,          \* the objects: node id -> its fields (kind, inputs, parentJob, ...)
    files,         \* the file system: location -> contents (Missing when absent)
    secHashAttr,   \* node id -> the attribute _secHash (NoAttr when not set)
    valueAttr,     \* node id -> the attribute _value of a ThunkArtifact (NoValue when not set)
    cacheDir,      \* the repository's cache directory: path (a secHash) -> pickled value
    thunkCalls,    \* node id -> the call counters of a ThunkArtifact: loadValue calls
                   \* (loads), executions of the thunk (runs), executions that
                   \* returned (oks), the object the first of those returned (first)
    computes,      \* node id -> how many times secHash() called computeSecHash()
    stores,        \* node id -> how many times secHash() assigned _secHash
    saved,         \* identity hash -> the last saveValue completed on a JobArtifact
                   \* of that identity hash: its value and the node it was called
                   \* on (by)
    nmut,          \* how many outside changes (fields, files, _secHash) happened
    initialNodes,  \* the argument of the ancestors() call of the traversal
    last,          \* the last operation and its outcome
    pc             \* process -> where it is in isDone / run / saveValue / loadValue,
                   \* and the value its run produced

vars == <<node, files, secHashAttr, valueAttr, cacheDir, thunkCalls, computes,
          stores, saved, nmut, initialNodes, last, pc>>

(***************************************************************************)
(* Bounds of the model.                                                    *)
(***************************************************************************)
MaxInputs == 2      \* longest Job.inputs list
MaxMut == 2        \* most outside changes in one behaviour
MaxCompute == 2     \* most computeSecHash() calls made by secHash() on one node
MaxRuns == 3        \* most loadValue calls on one ThunkArtifact
MaxStart == 2       \* longest list of starting nodes given to ancestors()
NumNodes == 4       \* number of nodes of the graphs given to ancestors()
MaxIter == 30       \* iterations after which a traversal loop is cut off

(***************************************************************************)
(* Values.                                                                 *)
(***************************************************************************)
Missing == 0                \* a location at which nothing exists
Contents == {1, 2}          \* byte contents a file can hold
Locations == {1, 2}
Values == {1, 2}            \* values a job can pickle
JobCodes == {5, 6}          \* codedep.getHash of two concrete Job subclasses
NoAttr == <<>>              \* hasattr(self, '_secHash') is false
NoValue == 0                \* hasattr(self, '_value') is false
NoNode == 0
BadHash == <<0>>            \* a string that is no node's hash

Nodes == DOMAIN node

\* All sequences over S of length at most n.
RECURSIVE SeqsUpTo(_, _)
SeqsUpTo(S, n) ==
    IF n = 0 THEN {<<>>}
    ELSE LET shorter == SeqsUpTo(S, n - 1)
         IN shorter \cup {Append(s, x) : s \in {t \in shorter : Len(t) = n - 1}, x \in S}

(***************************************************************************)
(* Constructors.                                                           *)
(***************************************************************************)
Blank ==
    [kind |-> "none", thunk |-> 0, shouldCache |-> FALSE, location |-> 0,
     parentJob |-> NoNode, inputs |-> <<>>, code |-> 0]

ThunkArtifact(thunk, shouldCache) ==
    [Blank EXCEPT !.kind = "ThunkArtifact", !.thunk = thunk, !.shouldCache = shouldCache]

FixedDirArtifact(location) ==
    [Blank EXCEPT !.kind = "FixedDirArtifact", !.location = location]

FixedFileArtifact(location) ==
    [Blank EXCEPT !.kind = "FixedFileArtifact", !.location = location]

JobArtifact(parentJob) ==
    [Blank EXCEPT !.kind = "JobArtifact", !.parentJob = parentJob]

\* A concrete Job subclass (its class hash is code) that sets self.inputs.
Job(code, inputs) ==
    [Blank EXCEPT !.kind = "Job", !.code = code, !.inputs = inputs]

IsArtifact(o) ==
    o.kind \in {"ThunkArtifact", "FixedDirArtifact", "FixedFileArtifact", "JobArtifact"}

(***************************************************************************)
(* The hash primitives (codedep.getHash, persist.secHashFile,              *)
(* persist.secHashObject), collision-free: a digest is the serialization   *)
(* of what was hashed, a sequence of numbers.                              *)
(***************************************************************************)
\* codedep.getHash(self.__class__)
getHashClass(o) ==
    CASE o.kind = "ThunkArtifact" -> <<1>>
      [] o.kind = "FixedDirArtifact" -> <<2>>
      [] o.kind = "FixedFileArtifact" -> <<3>>
      [] o.kind = "JobArtifact" -> <<4>>
      [] o.kind = "Job" -> <<o.code>>

\* codedep.getHash(self.thunk)
getHashThunk(o) == <<o.thunk>>

\* persist.secHashFile(location): the digest of the bytes at location; it
\* opens the file, which fails when nothing is there
secHashFile(location) ==
    IF files[location] = Missing THEN [ok |-> FALSE, h |-> <<>>]
    ELSE [ok |-> TRUE, h |-> <<files[location]>>]

RECURSIVE Flatten(_)
Flatten(items) ==
    IF items = <<>> THEN <<>>
    ELSE <<Len(Head(items))>> \o Head(items) \o Flatten(Tail(items))

\* the serialization of a list of strings
PickleList(hs) == <<Len(hs)>> \o Flatten(hs)

\* persist.secHashObject(tuple): each item of the tuple is already serialized
secHashObject(items) == <<Len(items)>> \o Flatten(items)

BoolItem(b) == IF b THEN <<1>> ELSE <<0>>

(***************************************************************************)
(* The parent relations.                                                   *)
(***************************************************************************)
\* parents(): [] for the three fixed artifacts, [parentJob] for a
\* JobArtifact, inputs for a Job
parents(n) ==
    CASE node[n].kind = "JobArtifact" -> <<node[n].parentJob>>
      [] node[n].kind = "Job" -> node[n].inputs
      [] OTHER -> <<>>

\* parentArtifacts(): [] for the three fixed artifacts, parentJob.inputs for
\* a JobArtifact
parentArtifacts(n) ==
    CASE node[n].kind = "JobArtifact" -> node[node[n].parentJob].inputs
      [] OTHER -> <<>>

Reverse(s) == [i \in 1..Len(s) |-> s[Len(s) + 1 - i]]

RECURSIVE ancestorsLoop(_, _, _)
ancestorsLoop(agenda, lookup, ret) ==
    IF agenda = <<>> THEN ret
    ELSE LET n == agenda[Len(agenda)]
             rest == SubSeq(agenda, 1, Len(agenda) - 1)
         IN IF n \notin lookup
            THEN ancestorsLoop(rest \o Reverse(parents(n)), lookup \cup {n}, Append(ret, n))
            ELSE ancestorsLoop(rest, lookup, ret)

\* a plausible bug: the lookup table is not consulted
RECURSIVE ancestorsLoopNoLookup(_, _)
ancestorsLoopNoLookup(agenda, ret) ==
    IF agenda = <<>> THEN ret
    ELSE LET n == agenda[Len(agenda)]
             rest == SubSeq(agenda, 1, Len(agenda) - 1)
         IN ancestorsLoopNoLookup(rest \o Reverse(parents(n)), Append(ret, n))

ancestorsNoLookup(initial) == ancestorsLoopNoLookup(initial, <<>>)

\* a plausible bug: the list is returned parents first
ancestorsParentsFirst(initial) == Reverse(ancestorsLoop(initial, {}, <<>>))

\* a plausible bug: the lookup table is keyed by the node's fields, which two
\* objects can share, not by id(node)
RECURSIVE ancestorsLoopByFields(_, _, _)
ancestorsLoopByFields(agenda, lookup, ret) ==
    IF agenda = <<>> THEN ret
    ELSE LET n == agenda[Len(agenda)]
             rest == SubSeq(agenda, 1, Len(agenda) - 1)
         IN IF node[n] \notin lookup
            THEN ancestorsLoopByFields(rest \o Reverse(parents(n)), lookup \cup {node[n]},
                                       Append(ret, n))
            ELSE ancestorsLoopByFields(rest, lookup, ret)

ancestorsByFields(initial) == ancestorsLoopByFields(initial, {}, <<>>)

ancestors(initial) == ancestorsLoop(initial, {}, <<>>)

RECURSIVE ancestorArtifactsLoop(_, _, _)
ancestorArtifactsLoop(agenda, lookup, ret) ==
    IF agenda = <<>> THEN ret
    ELSE LET art == agenda[Len(agenda)]
             rest == SubSeq(agenda, 1, Len(agenda) - 1)
         IN IF art \notin lookup
            THEN ancestorArtifactsLoop(rest \o Reverse(parentArtifacts(art)),
                                       lookup \cup {art}, Append(ret, art))
            ELSE ancestorArtifactsLoop(rest, lookup, ret)

\* a plausible bug: parents() is walked, as in ancestors()
ancestorArtifactsViaParents(initialArts) == ancestorsLoop(initialArts, {}, <<>>)

ancestorArtifacts(initialArts) == ancestorArtifactsLoop(initialArts, {}, <<>>)

(***************************************************************************)
(* The identity hash.  secHash() and computeSecHash() call each other down *)
(* the graph and set _secHash on the way, so they take the attributes (and *)
(* the call counters) as st and give back [ok, h, st]: ok is FALSE when    *)
(* the call raised.                                                        *)
(***************************************************************************)
St == [attr |-> secHashAttr, computes |-> computes, stores |-> stores]

Raised(st) == [ok |-> FALSE, h |-> NoAttr, st |-> st]
Returned(h, st) == [ok |-> TRUE, h |-> h, st |-> st]

RECURSIVE secHash(_, _), computeSecHash(_, _), secHashInputs(_, _)

\* a plausible bug: no memoization, the hash is computed and stored on every call
secHashAlways(n, st) ==
    LET r == computeSecHash(n, [st EXCEPT !.computes[n] = @ + 1])
    IN IF r.ok
       THEN Returned(r.h, [r.st EXCEPT !.attr[n] = r.h, !.stores[n] = @ + 1])
       ELSE r

\* DagNode.secHash
secHash(n, st) ==
    IF st.attr[n] # NoAttr
    THEN Returned(st.attr[n], st)
    ELSE LET r == computeSecHash(n, [st EXCEPT !.computes[n] = @ + 1])
         IN IF r.ok
            THEN Returned(r.h, [r.st EXCEPT !.attr[n] = r.h, !.stores[n] = @ + 1])
            ELSE r

\* [ art.secHash() for art in self.inputs ]
secHashInputs(arts, st) ==
    IF arts = <<>> THEN [ok |-> TRUE, hs |-> <<>>, st |-> st]
    ELSE LET r == secHash(Head(arts), st)
         IN IF ~r.ok THEN [ok |-> FALSE, hs |-> <<>>, st |-> r.st]
            ELSE LET rest == secHashInputs(Tail(arts), r.st)
                 IN [ok |-> rest.ok, hs |-> <<r.h>> \o rest.hs, st |-> rest.st]

ThunkArtifact_computeSecHash(n, st) ==
    Returned(secHashObject(<<getHashClass(node[n]), getHashThunk(node[n]),
                             BoolItem(node[n].shouldCache)>>), st)

FixedDirArtifact_computeSecHash(n, st) ==
    Returned(secHashObject(<<getHashClass(node[n]), <<node[n].location>> >>), st)

\* a plausible bug: the location is hashed, as for a FixedDirArtifact
FixedFileArtifact_computeSecHashOfLocation(n, st) ==
    Returned(secHashObject(<<getHashClass(node[n]), <<node[n].location>> >>), st)

FixedFileArtifact_computeSecHash(n, st) ==
    LET f == secHashFile(node[n].location)
    IN IF f.ok THEN Returned(secHashObject(<<getHashClass(node[n]), f.h>>), st)
       ELSE Raised(st)

\* a plausible bug: the hash of the producing job is left out
JobArtifact_computeSecHashNoJob(n, st) ==
    Returned(secHashObject(<<getHashClass(node[n])>>), st)

JobArtifact_computeSecHash(n, st) ==
    LET r == secHash(node[n].parentJob, st)
    IN IF r.ok THEN Returned(secHashObject(<<getHashClass(node[n]), r.h>>), r.st)
       ELSE r

\* a plausible bug: the hash of the defining code is left out
Job_computeSecHashNoSource(n, st) ==
    LET r == secHashInputs(node[n].inputs, st)
    IN IF r.ok THEN Returned(secHashObject(<<PickleList(r.hs)>>), r.st)
       ELSE Raised(r.st)

Job_computeSecHash(n, st) ==
    LET r == secHashInputs(node[n].inputs, st)
    IN IF r.ok THEN Returned(secHashObject(<<getHashClass(node[n]), PickleList(r.hs)>>), r.st)
       ELSE Raised(r.st)

computeSecHash(n, st) ==
    CASE node[n].kind = "ThunkArtifact" -> ThunkArtifact_computeSecHash(n, st)
      [] node[n].kind = "FixedDirArtifact" -> FixedDirArtifact_computeSecHash(n, st)
      [] node[n].kind = "FixedFileArtifact" -> FixedFileArtifact_computeSecHash(n, st)
      [] node[n].kind = "JobArtifact" -> JobArtifact_computeSecHash(n, st)
      [] node[n].kind = "Job" -> Job_computeSecHash(n, st)

\* a plausible bug: the comparison is inverted
checkSecHashInverted(n, st) ==
    LET stored == secHash(n, st)
    IN IF ~stored.ok THEN [raised |-> TRUE, st |-> stored.st]
       ELSE LET fresh == computeSecHash(n, stored.st)
            IN [raised |-> ~fresh.ok \/ stored.h = fresh.h, st |-> fresh.st]

\* Artifact.checkSecHash and Job.checkSecHash: [raised, st]
checkSecHash(n, st) ==
    LET stored == secHash(n, st)
    IN IF ~stored.ok THEN [raised |-> TRUE, st |-> stored.st]
       ELSE LET fresh == computeSecHash(n, stored.st)
            IN [raised |-> ~fresh.ok \/ stored.h # fresh.h, st |-> fresh.st]

RECURSIVE checkEach(_, _)
checkEach(ns, st) ==
    IF ns = <<>> THEN [raised |-> FALSE, at |-> NoNode, st |-> st]
    ELSE LET r == checkSecHash(Head(ns), st)
         IN IF r.raised THEN [raised |-> TRUE, at |-> Head(ns), st |-> r.st]
            ELSE checkEach(Tail(ns), r.st)

\* a plausible bug: only the node itself is checked
checkAllSecHashSelfOnly(n, st) == checkEach(<<n>>, st)

\* a plausible bug: the nodes are checked parents first
checkAllSecHashParentsFirst(n, st) == checkEach(Reverse(ancestors(<<n>>)), st)

\* DagNode.checkAllSecHash
checkAllSecHash(n, st) == checkEach(ancestors(<<n>>), st)

(***************************************************************************)
(* The state after construction: no attribute set, nothing cached.         *)
(***************************************************************************)
Range(s) == {s[i] : i \in DOMAIN s}

UsedLocations(g) ==
    {g[i].location : i \in {j \in DOMAIN g : g[j].kind \in {"FixedDirArtifact", "FixedFileArtifact"}}}

\* the processes that share the cache directory, none of them started
Procs == {1, 2}
Idle == [at |-> "start", value |-> NoValue]

NoCalls == [loads |-> 0, runs |-> 0, oks |-> 0, first |-> NoValue]

NoOp == [op |-> "none", n |-> NoNode, raised |-> FALSE, ret |-> NoAttr]

Outside == [op |-> "outside", n |-> NoNode, raised |-> FALSE, ret |-> NoAttr]

\* The graph g was just built; the file system is fs; initial is the list
\* a traversal will be given.
Built(g, fs, initial) ==
    /\ node = g
    /\ files = fs
    /\ secHashAttr = [n \in DOMAIN g |-> NoAttr]
    /\ valueAttr = [n \in DOMAIN g |-> NoValue]
    /\ cacheDir = [path \in {} |-> NoValue]
    /\ thunkCalls = [n \in DOMAIN g |-> NoCalls]
    /\ computes = [n \in DOMAIN g |-> 0]
    /\ stores = [n \in DOMAIN g |-> 0]
    /\ saved = [ident \in {} |-> NoValue]
    /\ nmut = 0
    /\ initialNodes = initial
    /\ last = NoOp
    /\ pc = [p \in Procs |-> Idle]

FileSystems(g) ==
    {fs \in [Locations -> {Missing} \cup Contents] :
        \A l \in Locations \ UsedLocations(g) : fs[l] = Missing}

Leaves ==
    {ThunkArtifact(1, b) : b \in BOOLEAN} \cup {FixedDirArtifact(1), FixedFileArtifact(1)}

\* a leaf artifact; a Job with any list of inputs; the Job's output
ChainGraphs ==
    {<<leaf, Job(5, inA), JobArtifact(2)>> :
        leaf \in Leaves, inA \in SeqsUpTo({1}, MaxInputs)}

InitHash == \E g \in ChainGraphs : \E fs \in FileSystems(g) : Built(g, fs, <<>>)

(***************************************************************************)
(* The hash operations.                                                    *)
(***************************************************************************)
SetSt(st) ==
    /\ \A n \in Nodes : st.computes[n] <= MaxCompute
    /\ secHashAttr' = st.attr
    /\ computes' = st.computes
    /\ stores' = st.stores

SecHash(n) ==
    LET r == secHash(n, St)
    IN /\ SetSt(r.st)
       /\ last' = [op |-> "secHash", n |-> n, raised |-> ~r.ok, ret |-> r.h]
       /\ UNCHANGED <<node, files, valueAttr, cacheDir, thunkCalls, saved, nmut, initialNodes, pc>>

CheckSecHash(n) ==
    LET r == checkSecHash(n, St)
    IN /\ SetSt(r.st)
       /\ last' = [op |-> "checkSecHash", n |-> n, raised |-> r.raised, ret |-> NoAttr]
       /\ UNCHANGED <<node, files, valueAttr, cacheDir, thunkCalls, saved, nmut, initialNodes, pc>>

CheckAllSecHash(n) ==
    LET r == checkAllSecHash(n, St)
    IN /\ SetSt(r.st)
       /\ last' = [op |-> "checkAllSecHash", n |-> n, raised |-> r.raised, ret |-> <<r.at>>]
       /\ UNCHANGED <<node, files, valueAttr, cacheDir, thunkCalls, saved, nmut, initialNodes, pc>>

(***************************************************************************)
(* Changes made from outside, which the objects do not prevent.            *)
(***************************************************************************)
\* node._secHash = h
ForceSecHash(n, h) ==
    /\ nmut < MaxMut
    /\ secHashAttr[n] # h
    /\ secHashAttr' = [secHashAttr EXCEPT ![n] = h]
    /\ nmut' = nmut + 1
    /\ last' = Outside
    /\ UNCHANGED <<node, files, valueAttr, cacheDir, thunkCalls, computes, stores, saved, initialNodes, pc>>

\* job.inputs = ins
SetInputs(j, ins) ==
    /\ nmut < MaxMut
    /\ node[j].kind = "Job"
    /\ node[j].inputs # ins
    /\ node' = [node EXCEPT ![j].inputs = ins]
    /\ nmut' = nmut + 1
    /\ last' = Outside
    /\ UNCHANGED <<files, secHashAttr, valueAttr, cacheDir, thunkCalls, computes, stores, saved, initialNodes, pc>>

\* thunkArtifact.shouldCache = not thunkArtifact.shouldCache
SetShouldCache(n) ==
    /\ nmut < MaxMut
    /\ node[n].kind = "ThunkArtifact"
    /\ node' = [node EXCEPT ![n].shouldCache = ~@]
    /\ nmut' = nmut + 1
    /\ last' = Outside
    /\ UNCHANGED <<files, secHashAttr, valueAttr, cacheDir, thunkCalls, computes, stores, saved, initialNodes, pc>>

\* the file at location l is written (c in Contents) or removed (c = Missing)
WriteFile(l, c) ==
    /\ nmut < MaxMut
    /\ l \in UsedLocations(node)
    /\ files[l] # c
    /\ files' = [files EXCEPT ![l] = c]
    /\ nmut' = nmut + 1
    /\ last' = Outside
    /\ UNCHANGED <<node, secHashAttr, valueAttr, cacheDir, thunkCalls, computes, stores, saved, initialNodes, pc>>

ArtifactsBefore(j) == {a \in Nodes : a < j /\ IsArtifact(node[a])}

ForcedHashes(n) == {BadHash} \cup {secHashAttr[m] : m \in {k \in Nodes : k # n /\ secHashAttr[k] # NoAttr}}

NextHash ==
    \/ \E n \in Nodes : SecHash(n)
    \/ \E n \in Nodes : CheckSecHash(n)
    \/ \E n \in Nodes : CheckAllSecHash(n)
    \/ \E n \in Nodes : \E h \in ForcedHashes(n) : ForceSecHash(n, h)
    \/ \E j \in Nodes : \E ins \in SeqsUpTo(ArtifactsBefore(j), MaxInputs) : SetInputs(j, ins)
    \/ \E n \in Nodes : SetShouldCache(n)
    \/ \E l \in Locations : \E c \in {Missing} \cup Contents : WriteFile(l, c)

SpecHash == InitHash /\ [][NextHash]_vars

(***************************************************************************)
(* Reachability through parents(), stated without the traversal.           *)
(***************************************************************************)
RECURSIVE Closure(_)
Closure(S) ==
    LET T == S \cup UNION {Range(parents(n)) : n \in S}
    IN IF T = S THEN S ELSE Closure(T)

\* n's stored hash differs from what computeSecHash() returns for it now
Drift(n) ==
    /\ secHashAttr[n] # NoAttr
    /\ LET fresh == computeSecHash(n, St)
       IN fresh.ok /\ fresh.h # secHashAttr[n]

(***************************************************************************)
(* C1: if some node reachable from r through parents() (r included) has a  *)
(* stored hash that differs from what computeSecHash() returns for it now, *)
(* r.checkAllSecHash() raises instead of returning normally.               *)
(***************************************************************************)
C1_DriftRaises ==
    [][\A r \in Nodes :
          (/\ last'.op = "checkAllSecHash"
           /\ last'.n = r
           /\ \E m \in Closure({r}) : Drift(m))
          => last'.raised]_vars

\* checkAllSecHash raised on a node whose own hash is sound, for the drift
\* of a node further up
C1_Witness ==
    /\ last.op = "checkAllSecHash"
    /\ last.raised
    /\ ~Drift(last.n)
    /\ \E m \in Closure({last.n}) : m # last.n /\ Drift(m)

(***************************************************************************)
(* C2, as claimed: on a freshly built graph in which nothing was changed   *)
(* from outside, checkAllSecHash() never raises.                           *)
(***************************************************************************)
C2_FreshNeverRaises ==
    (last.op = "checkAllSecHash" /\ nmut = 0) => ~last.raised

FilesExist(S) ==
    \A m \in S : node[m].kind = "FixedFileArtifact" => files[node[m].location] # Missing

(***************************************************************************)
(* C2, amended: on a freshly built graph in which nothing was changed from *)
(* outside and in which the file of every FixedFileArtifact reachable from *)
(* the node exists, checkAllSecHash() never raises, whichever nodes had    *)
(* their hash computed before.                                             *)
(***************************************************************************)
C2_FreshWithFilesNeverRaises ==
    (last.op = "checkAllSecHash" /\ nmut = 0 /\ FilesExist(Closure({last.n})))
        => ~last.raised

\* checkAllSecHash returned on the output of a Job that reads a fixed file,
\* some hashes computed by checkAllSecHash() itself
C2_Witness ==
    /\ last.op = "checkAllSecHash"
    /\ nmut = 0
    /\ ~last.raised
    /\ node[last.n].kind = "JobArtifact"
    /\ \E m \in Closure({last.n}) : node[m].kind = "FixedFileArtifact"

(***************************************************************************)
(* C3, as claimed: secHash() calls computeSecHash() exactly once for a     *)
(* node, on the first secHash() call.                                      *)
(***************************************************************************)
C3_ComputedOnce == \A n \in Nodes : computes[n] <= 1

(***************************************************************************)
(* C3, amended: secHash() stores the hash at most once, the first time a   *)
(* computeSecHash() call it makes returns (a call that raises stores       *)
(* nothing and the next secHash() computes again); once a hash is stored,  *)
(* secHash() returns it without calling computeSecHash(), and no secHash(),*)
(* checkSecHash() or checkAllSecHash() changes it, whatever changed in the *)
(* node's inputs, fields or file.                                          *)
(***************************************************************************)
C3_StoredOnceAndKept ==
    [][nmut' = nmut =>
          \A n \in Nodes :
              /\ stores'[n] <= 1
              /\ stores'[n] = 1 => secHashAttr'[n] # NoAttr
              /\ secHashAttr[n] # NoAttr =>
                    /\ secHashAttr'[n] = secHashAttr[n]
                    /\ computes'[n] = computes[n]
                    /\ stores'[n] = stores[n]
              /\ (last'.op = "secHash" /\ last'.n = n /\ ~last'.raised) =>
                    /\ last'.ret = secHashAttr'[n]
                    /\ secHashAttr[n] = NoAttr => stores'[n] = stores[n] + 1]_vars

\* secHash() returned the stored hash of a node that no longer hashes to it
C3_Witness ==
    /\ last.op = "secHash"
    /\ ~last.raised
    /\ Drift(last.n)
    /\ last.ret = secHashAttr[last.n]
    /\ stores[last.n] = 1

(***************************************************************************)
(* The traversals, on every graph of NumNodes nodes that the constructors  *)
(* can build (a node's parents are built before it).                       *)
(***************************************************************************)
ArtifactIds(g) == {i \in DOMAIN g : IsArtifact(g[i])}
JobIds(g) == {i \in DOMAIN g : g[i].kind = "Job"}

\* the leaf built as node number k: the three fixed artifacts in turn, which
\* the traversals do not tell apart (each has no parents)
LeafAt(k) ==
    CASE k % 3 = 1 -> ThunkArtifact(1, TRUE)
      [] k % 3 = 2 -> FixedDirArtifact(1)
      [] OTHER -> FixedFileArtifact(1)

NextObjects(g) ==
    {LeafAt(Len(g) + 1)}
        \cup {Job(5, ins) : ins \in SeqsUpTo(ArtifactIds(g), MaxInputs)}
        \cup {JobArtifact(j) : j \in JobIds(g)}

RECURSIVE DagGraphs(_)
DagGraphs(k) ==
    IF k = 0 THEN {<<>>}
    ELSE UNION {{Append(g, o) : o \in NextObjects(g)} : g \in DagGraphs(k - 1)}

NoFiles == [l \in Locations |-> Missing]

InitAnc ==
    \E g \in DagGraphs(NumNodes) : \E initial \in SeqsUpTo(DOMAIN g, MaxStart) :
        Built(g, NoFiles, initial)

\* ancestors(initialNodes) is called
Ancestors ==
    /\ last.op = "none"
    /\ last' = [op |-> "ancestors", n |-> NoNode, raised |-> FALSE,
                ret |-> ancestors(initialNodes)]
    /\ UNCHANGED <<node, files, secHashAttr, valueAttr, cacheDir, thunkCalls, computes,
                   stores, saved, nmut, initialNodes, pc>>

\* ancestorArtifacts(initialNodes) is called, the starting nodes being artifacts
AncestorArtifacts ==
    /\ last.op = "none"
    /\ \A i \in DOMAIN initialNodes : IsArtifact(node[initialNodes[i]])
    /\ last' = [op |-> "ancestorArtifacts", n |-> NoNode, raised |-> FALSE,
                ret |-> ancestorArtifacts(initialNodes)]
    /\ UNCHANGED <<node, files, secHashAttr, valueAttr, cacheDir, thunkCalls, computes,
                   stores, saved, nmut, initialNodes, pc>>

NextAnc == Ancestors \/ AncestorArtifacts

SpecAnc == InitAnc /\ [][NextAnc]_vars

NoRepeat(s) == \A i, j \in DOMAIN s : i # j => s[i] # s[j]

(***************************************************************************)
(* C4: ancestors(initialNodes) lists exactly the nodes reachable from the  *)
(* starting nodes through parents(), the starting nodes included, and each *)
(* of them exactly once, also with repeated starting nodes and with nodes  *)
(* reachable along several paths.                                          *)
(***************************************************************************)
C4_AncestorsExactlyOnce ==
    last.op = "ancestors" =>
        /\ Range(last.ret) = Closure(Range(initialNodes))
        /\ NoRepeat(last.ret)

\* a diamond: from a single starting node, a node that is the parent of two
\* different reachable nodes
C4_Witness ==
    /\ last.op = "ancestors"
    /\ Len(initialNodes) = 1
    /\ \E n \in Range(last.ret) :
          Cardinality({m \in Range(last.ret) : n \in Range(parents(m))}) >= 2

(***************************************************************************)
(* The hash of a Job, on two Jobs over two leaf artifacts.                 *)
(***************************************************************************)
InputGraphs ==
    {<<FixedFileArtifact(1), leaf, Job(5, inA), Job(cB, inB)>> :
        leaf \in {FixedFileArtifact(2), FixedDirArtifact(2)},
        inA \in SeqsUpTo({1, 2}, MaxInputs),
        cB \in JobCodes,
        inB \in SeqsUpTo({1, 2}, MaxInputs)}

InitJob == \E g \in InputGraphs : \E fs \in [Locations -> Contents] : Built(g, fs, <<>>)

NextJob ==
    \/ \E n \in Nodes : SecHash(n)
    \/ \E n \in Nodes : CheckAllSecHash(n)

SpecJob == InitJob /\ [][NextJob]_vars

\* the identity hashes of a Job's inputs, in order
InputHashes(j) == [i \in DOMAIN node[j].inputs |-> secHashAttr[node[j].inputs[i]]]

(***************************************************************************)
(* C5: two Jobs have equal identity hashes if and only if they have the    *)
(* same defining-code hash and the same ordered sequence of input identity *)
(* hashes.                                                                 *)
(***************************************************************************)
C5_JobHashInjective ==
    \A j, k \in Nodes :
        (/\ node[j].kind = "Job" /\ node[k].kind = "Job"
         /\ secHashAttr[j] # NoAttr /\ secHashAttr[k] # NoAttr)
        => ((secHashAttr[j] = secHashAttr[k])
              <=> (/\ getHashClass(node[j]) = getHashClass(node[k])
                   /\ InputHashes(j) = InputHashes(k)))

\* the same code and the same two inputs in the other order, the inputs'
\* hashes different: the Jobs' hashes differ
C5_Witness ==
    \E j, k \in Nodes :
        /\ node[j].kind = "Job" /\ node[k].kind = "Job"
        /\ secHashAttr[j] # NoAttr /\ secHashAttr[k] # NoAttr
        /\ node[j].code = node[k].code
        /\ Len(node[j].inputs) = 2
        /\ node[k].inputs = Reverse(node[j].inputs)
        /\ InputHashes(j) # InputHashes(k)
        /\ secHashAttr[j] # secHashAttr[k]

(***************************************************************************)
(* Persistence.  persist.savePickle writes the pickled value at a path,    *)
(* replacing what is there; persist.loadPickle reads it back and fails     *)
(* when nothing is there.  The write is not atomic: the file is opened for *)
(* writing, which leaves it empty, and filled afterwards.                  *)
(***************************************************************************)
Pickle(value) == <<9, value>>
Unpickle(bytes) == bytes[2]

\* the bytes of a file that was opened for writing and not written yet
Truncated == <<>>

openForWrite(dir, path) ==
    [p \in DOMAIN dir \cup {path} |-> IF p = path THEN Truncated ELSE dir[p]]

savePickle(dir, path, value) ==
    [p \in DOMAIN dir \cup {path} |-> IF p = path THEN Pickle(value) ELSE dir[p]]

loadPickle(dir, path) ==
    IF path \in DOMAIN dir /\ dir[path] # Truncated
    THEN [ok |-> TRUE, value |-> Unpickle(dir[path])]
    ELSE [ok |-> FALSE, value |-> NoValue]

\* os.path.exists
exists(location) == files[location] # Missing

\* What an operation gives back: whether it raised, what it returned, and the
\* attributes, cache directory, _value attributes and thunk counters after it.
Outcome(raised, ret, st, dir, values, calls) ==
    [raised |-> raised, ret |-> ret, st |-> st, dir |-> dir, values |-> values, calls |-> calls]

\* a plausible bug: the path is derived from the producing job's hash
JobArtifact_locOfJob(n, st) == secHash(node[n].parentJob, st)

\* a plausible bug: the hash is left out of the path
JobArtifact_locCacheDir(n, st) == Returned(BadHash, st)

\* a plausible bug: the path is derived from the object, not from its hash
JobArtifact_locOfObject(n, st) == Returned(<<0, n>>, st)

\* JobArtifact.loc: os.path.join(buildRepo.cacheDir(), self.secHash())
JobArtifact_loc(n, st) == secHash(n, st)

JobArtifact_isDone(n, st, dir, values, calls) ==
    LET l == JobArtifact_loc(n, st)
    IN IF ~l.ok THEN Outcome(TRUE, NoAttr, l.st, dir, values, calls)
       ELSE Outcome(FALSE, l.h \in DOMAIN dir, l.st, dir, values, calls)

\* a plausible bug: a missing cache file is read as no value instead of an error
JobArtifact_loadValueDefault(n, st, dir, values, calls) ==
    LET l == JobArtifact_loc(n, st)
    IN IF ~l.ok THEN Outcome(TRUE, NoAttr, l.st, dir, values, calls)
       ELSE Outcome(FALSE, loadPickle(dir, l.h).value, l.st, dir, values, calls)

JobArtifact_loadValue(n, st, dir, values, calls) ==
    LET l == JobArtifact_loc(n, st)
    IN IF ~l.ok THEN Outcome(TRUE, NoAttr, l.st, dir, values, calls)
       ELSE LET v == loadPickle(dir, l.h)
            IN IF v.ok THEN Outcome(FALSE, v.value, l.st, dir, values, calls)
               ELSE Outcome(TRUE, NoAttr, l.st, dir, values, calls)

\* a plausible bug: a cache file that exists is kept
JobArtifact_saveValueOnce(n, value, st, dir, values, calls) ==
    LET l == JobArtifact_loc(n, st)
    IN IF ~l.ok THEN Outcome(TRUE, NoAttr, l.st, dir, values, calls)
       ELSE IF l.h \in DOMAIN dir THEN Outcome(FALSE, NoAttr, l.st, dir, values, calls)
       ELSE Outcome(FALSE, NoAttr, l.st, savePickle(dir, l.h, value), values, calls)

JobArtifact_saveValue(n, value, st, dir, values, calls) ==
    LET l == JobArtifact_loc(n, st)
    IN IF ~l.ok THEN Outcome(TRUE, NoAttr, l.st, dir, values, calls)
       ELSE Outcome(FALSE, NoAttr, l.st, savePickle(dir, l.h, value), values, calls)

\* self.thunk() inside a loadValue call: one execution, which returns a new
\* object (ok) or raises
RunThunk(n, ok, calls) ==
    [calls EXCEPT ![n].loads = @ + 1,
                  ![n].runs = @ + 1,
                  ![n].oks = IF ok THEN @ + 1 ELSE @,
                  ![n].first = IF ok /\ @ = NoValue THEN calls[n].runs + 1 ELSE @]

\* the object the execution that is now starting returns
NewObject(n, calls) == calls[n].runs + 1

\* a plausible bug: the cached value is not used
ThunkArtifact_loadValueNoCache(n, ok, st, dir, values, calls) ==
    IF ok THEN Outcome(FALSE, NewObject(n, calls), st, dir, values, RunThunk(n, ok, calls))
    ELSE Outcome(TRUE, NoAttr, st, dir, values, RunThunk(n, ok, calls))

\* ThunkArtifact.loadValue; ok says whether the thunk, if executed, returns
ThunkArtifact_loadValue(n, ok, st, dir, values, calls) ==
    IF node[n].shouldCache
    THEN IF values[n] = NoValue
         THEN IF ok
              THEN Outcome(FALSE, NewObject(n, calls), st, dir,
                           [values EXCEPT ![n] = NewObject(n, calls)], RunThunk(n, ok, calls))
              ELSE Outcome(TRUE, NoAttr, st, dir, values, RunThunk(n, ok, calls))
         ELSE Outcome(FALSE, values[n], st, dir, values, [calls EXCEPT ![n].loads = @ + 1])
    ELSE IF ok THEN Outcome(FALSE, NewObject(n, calls), st, dir, values, RunThunk(n, ok, calls))
         ELSE Outcome(TRUE, NoAttr, st, dir, values, RunThunk(n, ok, calls))

FixedDirArtifact_loadValue(n, st, dir, values, calls) ==
    Outcome(FALSE, node[n].location, st, dir, values, calls)

\* isDone(buildRepo)
isDone(n, st, dir, values, calls) ==
    CASE node[n].kind = "ThunkArtifact" -> Outcome(FALSE, TRUE, st, dir, values, calls)
      [] node[n].kind = "FixedDirArtifact" ->
            Outcome(FALSE, exists(node[n].location), st, dir, values, calls)
      [] node[n].kind = "FixedFileArtifact" ->
            Outcome(FALSE, exists(node[n].location), st, dir, values, calls)
      [] node[n].kind = "JobArtifact" -> JobArtifact_isDone(n, st, dir, values, calls)

\* loadValue(buildRepo); a FixedFileArtifact has no such method
loadValue(n, ok, st, dir, values, calls) ==
    CASE node[n].kind = "ThunkArtifact" -> ThunkArtifact_loadValue(n, ok, st, dir, values, calls)
      [] node[n].kind = "FixedDirArtifact" -> FixedDirArtifact_loadValue(n, st, dir, values, calls)
      [] node[n].kind = "FixedFileArtifact" -> Outcome(TRUE, NoAttr, st, dir, values, calls)
      [] node[n].kind = "JobArtifact" -> JobArtifact_loadValue(n, st, dir, values, calls)

\* a plausible bug: saveValue is the same for every artifact
saveValueAnyArtifact(n, value, st, dir, values, calls) ==
    JobArtifact_saveValue(n, value, st, dir, values, calls)

\* saveValue(buildRepo, value); a FixedFileArtifact has no such method
saveValue(n, value, st, dir, values, calls) ==
    CASE node[n].kind = "ThunkArtifact" -> Outcome(TRUE, NoAttr, st, dir, values, calls)
      [] node[n].kind = "FixedDirArtifact" -> Outcome(TRUE, NoAttr, st, dir, values, calls)
      [] node[n].kind = "FixedFileArtifact" -> Outcome(TRUE, NoAttr, st, dir, values, calls)
      [] node[n].kind = "JobArtifact" -> JobArtifact_saveValue(n, value, st, dir, values, calls)

SetOutcome(o) ==
    /\ SetSt(o.st)
    /\ cacheDir' = o.dir
    /\ valueAttr' = o.values
    /\ thunkCalls' = o.calls

\* what an operation returned, as recorded in last: nothing when it raised
True == <<1>>
False == <<0>>
RetBool(o) == IF o.raised THEN NoAttr ELSE IF o.ret THEN True ELSE False
RetValue(o) == IF o.raised THEN NoAttr ELSE <<o.ret>>

IsDone(n) ==
    LET o == isDone(n, St, cacheDir, valueAttr, thunkCalls)
    IN /\ IsArtifact(node[n])
       /\ SetOutcome(o)
       /\ last' = [op |-> "isDone", n |-> n, raised |-> o.raised, ret |-> RetBool(o)]
       /\ UNCHANGED <<node, files, saved, nmut, initialNodes, pc>>

LoadValue(n, ok) ==
    LET o == loadValue(n, ok, St, cacheDir, valueAttr, thunkCalls)
    IN /\ IsArtifact(node[n])
       /\ thunkCalls[n].loads < MaxRuns
       /\ SetOutcome(o)
       /\ last' = [op |-> "loadValue", n |-> n, raised |-> o.raised, ret |-> RetValue(o)]
       /\ UNCHANGED <<node, files, saved, nmut, initialNodes, pc>>

\* the identity hash of n, when it has one
Ident(n, st) == secHash(n, st).h

SaveValue(n, value) ==
    LET o == saveValue(n, value, St, cacheDir, valueAttr, thunkCalls)
    IN /\ IsArtifact(node[n])
       /\ SetOutcome(o)
       /\ last' = [op |-> "saveValue", n |-> n, raised |-> o.raised, ret |-> <<value>>]
       /\ saved' = IF o.raised THEN saved
                   ELSE [i \in DOMAIN saved \cup {Ident(n, St)} |->
                            IF i = Ident(n, St)
                            THEN [value |-> value, by |-> n]
                            ELSE saved[i]]
       /\ UNCHANGED <<node, files, nmut, initialNodes, pc>>

\* a leaf artifact; Job A with or without it as input; A's output a1; Job B,
\* either built like A or reading a1, of A's class or of another; B's
\* output a2
StoreGraphs ==
    UNION {{<<leaf, Job(5, inA), JobArtifact(2), Job(cB, inB), JobArtifact(4)>> :
               leaf \in Leaves, cB \in JobCodes, inB \in {inA, <<3>>}} :
           inA \in {<<>>, <<1>>}}

InitStore == \E g \in StoreGraphs : \E fs \in FileSystems(g) : Built(g, fs, <<>>)

NextStore ==
    \/ \E n \in Nodes : IsDone(n)
    \/ \E n \in Nodes : \E ok \in BOOLEAN : LoadValue(n, ok)
    \/ \E n \in Nodes : \E value \in Values : SaveValue(n, value)
    \/ \E n \in Nodes : SecHash(n)

SpecStore == InitStore /\ [][NextStore]_vars

JobArtifacts == {n \in Nodes : node[n].kind = "JobArtifact"}
ThunkArtifacts == {n \in Nodes : node[n].kind = "ThunkArtifact"}

\* isDone(buildRepo) would return False on n now
NotDone(n) ==
    LET d == isDone(n, St, cacheDir, valueAttr, thunkCalls)
    IN ~d.raised /\ ~d.ret

(***************************************************************************)
(* C6: with the cache empty at the start, isDone on a JobArtifact x is     *)
(* false until a saveValue has been performed on some JobArtifact whose    *)
(* identity hash equals x's (x or another object), and true after it.      *)
(***************************************************************************)
C6_DoneIffSaved ==
    (last.op = "isDone" /\ last.n \in JobArtifacts /\ ~last.raised)
        => (last.ret = IF Ident(last.n, St) \in DOMAIN saved THEN True ELSE False)

\* isDone is true on a JobArtifact after a saveValue on another object of
\* the same identity hash
C6_Witness ==
    /\ last.op = "isDone"
    /\ last.n \in JobArtifacts
    /\ ~last.raised
    /\ last.ret = True
    /\ saved[Ident(last.n, St)].by # last.n

(***************************************************************************)
(* C7: loadValue on a JobArtifact returns the value of the last saveValue  *)
(* performed on a JobArtifact of the same identity hash (the same object   *)
(* or another).                                                            *)
(***************************************************************************)
C7_RoundTrip ==
    [][\A n \in JobArtifacts :
          (/\ last'.op = "loadValue"
           /\ last'.n = n
           /\ secHash(n, St).ok
           /\ Ident(n, St) \in DOMAIN saved)
          => (~last'.raised /\ last'.ret = <<saved[Ident(n, St)].value>>)]_vars

\* loadValue returned what was saved through another object of the same
\* identity hash
C7_Witness ==
    /\ last.op = "loadValue"
    /\ last.n \in JobArtifacts
    /\ ~last.raised
    /\ saved[Ident(last.n, St)].by # last.n
    /\ last.ret = <<saved[Ident(last.n, St)].value>>

C9_LoadFailsWhenNotDone ==
    [][\A n \in Nodes :
          (last'.op = "loadValue" /\ last'.n = n /\ NotDone(n)) => last'.raised]_vars

(***************************************************************************)
(* C9, amended: loadValue called while isDone is false fails with an error *)
(* for every variant but FixedDirArtifact; a FixedDirArtifact's loadValue  *)
(* returns its location whether or not anything exists there.              *)
(***************************************************************************)
C9_LoadFailsUnlessFixedDir ==
    [][\A n \in Nodes :
          (last'.op = "loadValue" /\ last'.n = n) =>
              IF node[n].kind = "FixedDirArtifact"
              THEN ~last'.raised /\ last'.ret = <<node[n].location>>
              ELSE NotDone(n) => last'.raised]_vars

\* loadValue raised on a JobArtifact for which nothing is cached
C9_Witness ==
    /\ last.op = "loadValue"
    /\ last.n \in JobArtifacts
    /\ last.raised
    /\ NotDone(last.n)

(***************************************************************************)
(* C10, as claimed: once a value is stored at a cache path, no operation,  *)
(* saveValue with a different value included, changes it.                  *)
(***************************************************************************)
C10_NeverMutated ==
    [][\A p \in DOMAIN cacheDir : p \in DOMAIN cacheDir' /\ cacheDir'[p] = cacheDir[p]]_vars

(***************************************************************************)
(* C10, amended: once a value is stored at a cache path it stays stored,   *)
(* and only a saveValue on a JobArtifact of that identity hash changes it: *)
(* a saveValue with a different value replaces it.                         *)
(***************************************************************************)
C10_OnlySaveValueChanges ==
    [][\A p \in DOMAIN cacheDir :
          /\ p \in DOMAIN cacheDir'
          /\ cacheDir'[p] # cacheDir[p] =>
                /\ last'.op = "saveValue"
                /\ ~last'.raised
                /\ last'.n \in JobArtifacts
                /\ Ident(last'.n, St) = p
                /\ cacheDir'[p] = Pickle(last'.ret[1])]_vars

\* values are stored at two cache paths and an operation other than
\* saveValue has been performed since
C10_Witness ==
    /\ last.op \in {"isDone", "loadValue", "secHash"}
    /\ \E p, q \in DOMAIN cacheDir : p # q /\ cacheDir[p] # cacheDir[q]

(***************************************************************************)
(* Which node a failing checkAllSecHash() names.                           *)
(***************************************************************************)
AllComputed == \A m \in Nodes : secHashAttr[m] # NoAttr

\* the hash secHash() gives n on a graph none of whose hashes is stored
HashFromScratch(n) ==
    secHash(n, [attr |-> [m \in Nodes |-> NoAttr], computes |-> computes, stores |-> stores])

\* every hash is stored, and n's is the only one that is not the hash the
\* graph gives the node
OnlyReplaced(n) ==
    /\ AllComputed
    /\ \A m \in Nodes :
          LET h == HashFromScratch(m)
          IN h.ok /\ (m = n <=> secHashAttr[m] # h.h)

\* the nodes that have n as a direct parent
Consumers(n) == {m \in Nodes : n \in Range(parents(m))}

\* the first node of the list s that is in S (S holds a node of s)
First(s, S) == s[CHOOSE i \in DOMAIN s : s[i] \in S /\ \A j \in 1..(i - 1) : s[j] \notin S]

BuiltContents == 1

InitFile ==
    \E g \in ChainGraphs :
        Built(g, [l \in Locations |-> IF l \in UsedLocations(g) THEN BuiltContents ELSE Missing],
              <<>>)

SpecFile == InitFile /\ [][NextHash]_vars

\* the hash of a FixedFileArtifact whose file holds the bytes c
FileHash(n, c) == secHashObject(<<getHashClass(node[n]), <<c>> >>)

FixedFileArtifacts == {n \in Nodes : node[n].kind = "FixedFileArtifact"}

(***************************************************************************)
(* C12, as claimed: secHash() on a FixedFileArtifact returns the hash of   *)
(* the bytes the file held at construction time, also when the file was    *)
(* changed between construction and the first secHash() call.              *)
(***************************************************************************)
C12_HashOfBytesAtConstruction ==
    [][\A n \in FixedFileArtifacts :
          (/\ last'.op = "secHash"
           /\ last'.n = n
           /\ ~last'.raised
           /\ secHashAttr[n] = NoAttr)
          => last'.ret = FileHash(n, BuiltContents)]_vars

(***************************************************************************)
(* C12, amended: the hash of a FixedFileArtifact is the hash of the bytes  *)
(* the file holds at the first secHash() call that returns: the file is    *)
(* read then, not at construction, so a change made to it between          *)
(* construction and that call is reflected in the hash.                    *)
(***************************************************************************)
C12_HashOfBytesAtFirstSecHash ==
    [][\A n \in FixedFileArtifacts :
          (/\ last'.op = "secHash"
           /\ last'.n = n
           /\ ~last'.raised
           /\ secHashAttr[n] = NoAttr)
          => (last'.ret = FileHash(n, files[node[n].location]) /\ files' = files)]_vars

\* the file was rewritten before the first secHash(), which returned the
\* hash of the new bytes
C12_Witness ==
    /\ last.op = "secHash"
    /\ last.n \in FixedFileArtifacts
    /\ ~last.raised
    /\ nmut = 1
    /\ stores[last.n] = 1
    /\ files[node[last.n].location] # BuiltContents
    /\ last.ret = FileHash(last.n, files[node[last.n].location])

(***************************************************************************)
(* C13: saveValue on a ThunkArtifact or a FixedDirArtifact raises, for     *)
(* every value and in every state of the artifact, and changes neither the *)
(* artifact (stored hash, cached thunk value, fields) nor the cache.       *)
(***************************************************************************)
C13_SaveValueRaises ==
    [][\A n \in Nodes :
          (/\ last'.op = "saveValue"
           /\ last'.n = n
           /\ node[n].kind \in {"ThunkArtifact", "FixedDirArtifact"})
          => /\ last'.raised
             /\ node' = node
             /\ secHashAttr' = secHashAttr
             /\ valueAttr' = valueAttr
             /\ thunkCalls' = thunkCalls
             /\ cacheDir' = cacheDir
             /\ files' = files]_vars

\* saveValue raised on a ThunkArtifact that holds a cached value, the cache
\* holding a value too
C13_Witness ==
    /\ last.op = "saveValue"
    /\ last.n \in ThunkArtifacts
    /\ last.raised
    /\ valueAttr[last.n] # NoValue
    /\ DOMAIN cacheDir # {}

(***************************************************************************)
(* Two freshly built copies of the chain A -> a1 -> B -> a2, A without     *)
(* inputs: nodes 1..4 and nodes 5..8.                                      *)
(***************************************************************************)
ChainCopies ==
    {<<Job(cA, <<>>), JobArtifact(1), Job(cB, <<2>>), JobArtifact(3),
       Job(dA, <<>>), JobArtifact(5), Job(dB, <<6>>), JobArtifact(7)>> :
        cA \in JobCodes, cB \in JobCodes, dA \in JobCodes, dB \in JobCodes}

InitChain == \E g \in ChainCopies : Built(g, NoFiles, <<>>)

NextChain ==
    \/ \E n \in Nodes : SecHash(n)
    \/ \E n \in Nodes : CheckAllSecHash(n)

SpecChain == InitChain /\ [][NextChain]_vars

(***************************************************************************)
(* C14: a2's identity hash differs between the two copies if and only if   *)
(* A's defining code, or B's defining code, or a1's identity hash differs  *)
(* between them.                                                           *)
(***************************************************************************)
C14_ChainHashChanges ==
    (secHashAttr[4] # NoAttr /\ secHashAttr[8] # NoAttr)
        => (secHashAttr[4] # secHashAttr[8]
               <=> \/ node[1].code # node[5].code
                   \/ node[3].code # node[7].code
                   \/ secHashAttr[2] # secHashAttr[6])

\* the copies differ in A's defining code only, and a2's hashes differ
C14_Witness ==
    /\ secHashAttr[4] # NoAttr
    /\ secHashAttr[8] # NoAttr
    /\ node[1].code # node[5].code
    /\ node[3].code = node[7].code
    /\ secHashAttr[4] # secHashAttr[8]

(***************************************************************************)
(* Two processes that share one cache directory.  Each holds its own       *)
(* JobArtifact object and goes through isDone, then, when that returned    *)
(* False, Job.run and saveValue, then loadValue.  The steps of the two     *)
(* interleave; a saveValue is two steps, since the write is not atomic.    *)
(***************************************************************************)
\* the JobArtifact of process p
Art(p) == 2 * p

\* Job 1 and its output for process 1, Job 3 and its output for process 2;
\* the two Jobs are structurally identical or of different classes
ProcGraphs ==
    {<<Job(5, <<>>), JobArtifact(1), Job(cB, <<>>), JobArtifact(3)>> : cB \in JobCodes}

InitProc == \E g \in ProcGraphs : Built(g, NoFiles, <<>>)

\* isDone(buildRepo)
ProcIsDone(p) ==
    LET o == JobArtifact_isDone(Art(p), St, cacheDir, valueAttr, thunkCalls)
    IN /\ pc[p].at = "start"
       /\ SetOutcome(o)
       /\ pc' = [pc EXCEPT ![p].at = IF o.ret THEN "load" ELSE "run"]
       /\ last' = [op |-> "isDone", n |-> Art(p), raised |-> o.raised, ret |-> RetBool(o)]
       /\ UNCHANGED <<node, files, saved, nmut, initialNodes>>

\* Job.run computes the value it is going to save
ProcRun(p, value) ==
    /\ pc[p].at = "run"
    /\ pc' = [pc EXCEPT ![p] = [at |-> "save", value |-> value]]
    /\ last' = [op |-> "run", n |-> Art(p), raised |-> FALSE, ret |-> <<value>>]
    /\ UNCHANGED <<node, files, secHashAttr, valueAttr, cacheDir, thunkCalls, computes,
                   stores, saved, nmut, initialNodes>>

\* saveValue(buildRepo, value) starts: the cache file is opened for writing
ProcOpen(p) ==
    LET l == JobArtifact_loc(Art(p), St)
    IN /\ pc[p].at = "save"
       /\ SetSt(l.st)
       /\ cacheDir' = openForWrite(cacheDir, l.h)
       /\ pc' = [pc EXCEPT ![p].at = "writing"]
       /\ last' = [op |-> "open", n |-> Art(p), raised |-> FALSE, ret |-> NoAttr]
       /\ UNCHANGED <<node, files, valueAttr, thunkCalls, saved, nmut, initialNodes>>

\* saveValue(buildRepo, value) completes: the cache file holds the value
ProcWrite(p) ==
    LET o == JobArtifact_saveValue(Art(p), pc[p].value, St, cacheDir, valueAttr, thunkCalls)
    IN /\ pc[p].at = "writing"
       /\ SetOutcome(o)
       /\ pc' = [pc EXCEPT ![p].at = "load"]
       /\ last' = [op |-> "saveValue", n |-> Art(p), raised |-> o.raised,
                   ret |-> <<pc[p].value>>]
       /\ saved' = [i \in DOMAIN saved \cup {Ident(Art(p), St)} |->
                       IF i = Ident(Art(p), St)
                       THEN [value |-> pc[p].value, by |-> Art(p)]
                       ELSE saved[i]]
       /\ UNCHANGED <<node, files, nmut, initialNodes>>

\* loadValue(buildRepo)
ProcLoad(p) ==
    LET o == JobArtifact_loadValue(Art(p), St, cacheDir, valueAttr, thunkCalls)
    IN /\ pc[p].at = "load"
       /\ SetOutcome(o)
       /\ pc' = [pc EXCEPT ![p].at = "done"]
       /\ last' = [op |-> "loadValue", n |-> Art(p), raised |-> o.raised, ret |-> RetValue(o)]
       /\ UNCHANGED <<node, files, saved, nmut, initialNodes>>

NextProc ==
    \/ \E p \in Procs : ProcIsDone(p)
    \/ \E p \in Procs : \E value \in Values : ProcRun(p, value)
    \/ \E p \in Procs : ProcOpen(p)
    \/ \E p \in Procs : ProcWrite(p)
    \/ \E p \in Procs : ProcLoad(p)

SpecProc == InitProc /\ [][NextProc]_vars

\* the two artifacts have the same identity hash, hence the same cache path
SamePath == Ident(Art(1), St) = Ident(Art(2), St)

\* the values the runs produced so far
Produced == {pc[p].value : p \in Procs} \ {NoValue}

AllDone == \A p \in Procs : pc[p].at = "done"

\* process p makes its loadValue step
Loads(p) == pc[p].at = "load" /\ pc'[p].at = "done"

\* the cache file of process p holds the pickled value
Holds(dir, p, value) ==
    Ident(Art(p), St) \in DOMAIN dir /\ dir[Ident(Art(p), St)] = Pickle(value)

(***************************************************************************)
(* C15, as claimed: for two processes whose artifacts have the same        *)
(* identity hash and whose runs produce the same value, under every        *)
(* interleaving the path ends up holding that value, and every loadValue   *)
(* that starts after a saveValue has completed returns it.                 *)
(***************************************************************************)
C15_LoadAfterAnySave ==
    [][(SamePath /\ Cardinality(Produced') <= 1) =>
          /\ AllDone' => \A value \in Produced' : Holds(cacheDir', 1, value)
          /\ \A p \in Procs :
                (Loads(p) /\ Ident(Art(p), St) \in DOMAIN saved)
                    => (~last'.raised /\ last'.ret = <<saved[Ident(Art(p), St)].value>>)]_vars

(***************************************************************************)
(* C15, amended: nothing prevents both processes from seeing isDone false  *)
(* and both writing the same path; under every interleaving, if their runs *)
(* produce the same value, the path holds that value once both are done,   *)
(* and every loadValue that starts after a saveValue has completed, while  *)
(* no other saveValue to that path is in progress, returns it.  (A         *)
(* loadValue that starts while another process is writing the path can     *)
(* find the file opened and not yet written, and fail.)                    *)
(***************************************************************************)
C15_LoadAfterSaveNoWriter ==
    [][(SamePath /\ Cardinality(Produced') <= 1) =>
          /\ AllDone' => \A value \in Produced' : Holds(cacheDir', 1, value)
          /\ \A p \in Procs :
                (/\ Loads(p)
                 /\ Ident(Art(p), St) \in DOMAIN saved
                 /\ \A q \in Procs : pc[q].at # "writing")
                    => (~last'.raised /\ last'.ret = <<saved[Ident(Art(p), St)].value>>)]_vars

\* both processes saw isDone false, both wrote the same path, and both
\* loaded the value
C15_Witness ==
    /\ SamePath
    /\ AllDone
    /\ \A p \in Procs : pc[p].value # NoValue
    /\ Cardinality(Produced) = 1
    /\ \A p \in Procs : Holds(cacheDir, p, pc[p].value)
    /\ last.op = "loadValue"
    /\ ~last.raised

(***************************************************************************)
(* C16: in the list ancestors(initialNodes) returns, every node that is    *)
(* not a starting node is preceded by a node that has it as a direct       *)
(* parent, and with a single starting node that node comes first.  (The    *)
(* list need not be a topological order: see the witness.)                 *)
(***************************************************************************)
C16_ClosestSeenFirst ==
    last.op = "ancestors" =>
        /\ \A i \in DOMAIN last.ret :
              last.ret[i] \notin Range(initialNodes)
                  => \E j \in 1..(i - 1) : last.ret[i] \in Range(parents(last.ret[j]))
        /\ Len(initialNodes) = 1 => last.ret[1] = initialNodes[1]

\* not a topological order: from a single starting node, a node is listed
\* before another node that has it as a parent
C16_Witness ==
    /\ last.op = "ancestors"
    /\ Len(initialNodes) = 1
    /\ \E i, j \in DOMAIN last.ret :
          i < j /\ last.ret[i] \in Range(parents(last.ret[j]))

\* how many times n occurs in the list s
Occurrences(s, n) == Cardinality({i \in DOMAIN s : s[i] = n})

\* the identity hash of every node of S
Hashes(S) == [n \in S |-> HashFromScratch(n)]

\* two objects with equal identity hashes, H being the hashes of the nodes
EqualHashes(H, a, b) ==
    /\ a # b
    /\ H[a].ok
    /\ H[b].ok
    /\ H[a].h = H[b].h

\* two outputs of the same Job, from two newOutput() calls
OutputsOfOneJob(a, b) ==
    /\ a # b
    /\ node[a].kind = "JobArtifact"
    /\ node[b].kind = "JobArtifact"
    /\ node[a].parentJob = node[b].parentJob

(***************************************************************************)
(* C17: two distinct reachable node objects with equal identity hashes     *)
(* (two outputs of the same Job) both occur in the list ancestors()        *)
(* returns, each exactly once, and the Job they share occurs exactly once. *)
(***************************************************************************)
C17_DedupByObjectIdentity ==
    last.op = "ancestors" =>
        \E H \in {Hashes(Closure(Range(initialNodes)))} : \A a, b \in DOMAIN H :
            EqualHashes(H, a, b) =>
                /\ Occurrences(last.ret, a) = 1
                /\ Occurrences(last.ret, b) = 1
                /\ OutputsOfOneJob(a, b) => Occurrences(last.ret, node[a].parentJob) = 1

\* two outputs of one Job are both inputs of a Job the traversal starts from
C17_Witness ==
    /\ last.op = "ancestors"
    /\ \E a, b \in Range(last.ret) :
          /\ OutputsOfOneJob(a, b)
          /\ EqualHashes(Hashes({a, b}), a, b)
          /\ \E j \in Range(initialNodes) : {a, b} \subseteq Range(parents(j))

(***************************************************************************)
(* The traversals on graphs with cycles.  The constructors build a node's  *)
(* parents before the node, but inputs is a plain list: extending it after *)
(* an output was made closes a cycle, and a Job put in its own inputs is   *)
(* its own parent.  The loops are modelled with their iterations counted,  *)
(* and are cut off after MaxIter iterations, so that a loop that would not *)
(* end shows as a result that is not done.                                 *)
(***************************************************************************)
CycNodes == {1, 2, 3}

CycObjects ==
    {LeafAt(1)}
        \cup {Job(5, ins) : ins \in SeqsUpTo(CycNodes, MaxInputs)}
        \cup {JobArtifact(j) : j \in CycNodes}

\* every graph on CycNodes in which parentJob is a Job
CycGraphs ==
    {g \in [CycNodes -> CycObjects] :
        \A i \in CycNodes : g[i].kind = "JobArtifact" => g[g[i].parentJob].kind = "Job"}

Counted(done, raised, iters, ret) ==
    [done |-> done, raised |-> raised, iters |-> iters, ret |-> ret]

\* a plausible bug: the lookup table is not consulted
RECURSIVE ancestorsIterNoLookup(_, _, _, _)
ancestorsIterNoLookup(agenda, lookup, ret, iters) ==
    IF agenda = <<>> THEN Counted(TRUE, FALSE, iters, ret)
    ELSE IF iters = MaxIter THEN Counted(FALSE, FALSE, iters, ret)
    ELSE LET n == agenda[Len(agenda)]
             rest == SubSeq(agenda, 1, Len(agenda) - 1)
         IN ancestorsIterNoLookup(rest \o Reverse(parents(n)), lookup, Append(ret, n),
                                  iters + 1)

\* the loop of ancestors(), iters being the iterations done so far
RECURSIVE ancestorsIter(_, _, _, _)
ancestorsIter(agenda, lookup, ret, iters) ==
    IF agenda = <<>> THEN Counted(TRUE, FALSE, iters, ret)
    ELSE IF iters = MaxIter THEN Counted(FALSE, FALSE, iters, ret)
    ELSE LET n == agenda[Len(agenda)]
             rest == SubSeq(agenda, 1, Len(agenda) - 1)
         IN IF n \notin lookup
            THEN ancestorsIter(rest \o Reverse(parents(n)), lookup \cup {n},
                               Append(ret, n), iters + 1)
            ELSE ancestorsIter(rest, lookup, ret, iters + 1)

\* the loop of ancestorArtifacts(); a Job has no parentArtifacts(), so the
\* call raises when the agenda gives one
RECURSIVE ancestorArtifactsIter(_, _, _, _)
ancestorArtifactsIter(agenda, lookup, ret, iters) ==
    IF agenda = <<>> THEN Counted(TRUE, FALSE, iters, ret)
    ELSE IF iters = MaxIter THEN Counted(FALSE, FALSE, iters, ret)
    ELSE LET art == agenda[Len(agenda)]
             rest == SubSeq(agenda, 1, Len(agenda) - 1)
         IN IF art \notin lookup
            THEN IF node[art].kind = "Job"
                 THEN Counted(TRUE, TRUE, iters + 1, Append(ret, art))
                 ELSE ancestorArtifactsIter(rest \o Reverse(parentArtifacts(art)),
                                            lookup \cup {art}, Append(ret, art), iters + 1)
            ELSE ancestorArtifactsIter(rest, lookup, ret, iters + 1)

\* the graph is there; each call is given its starting list
InitCyc == \E g \in CycGraphs : Built(g, NoFiles, <<>>)

\* what a counted traversal leaves in last.ret: whether the loop ended, the
\* iterations it made, then the list of the nodes it expanded
CountedRet(t) == <<IF t.done THEN 1 ELSE 0, t.iters>> \o t.ret

\* ancestors(initial) is called
CycAncestors ==
    \E initial \in SeqsUpTo(CycNodes, MaxStart) :
        /\ last.op = "none"
        /\ initialNodes' = initial
        /\ LET t == ancestorsIter(initial, {}, <<>>, 0)
           IN last' = [op |-> "ancestors", n |-> NoNode, raised |-> t.raised,
                       ret |-> CountedRet(t)]
        /\ UNCHANGED <<node, files, secHashAttr, valueAttr, cacheDir, thunkCalls,
                       computes, stores, saved, nmut, pc>>

\* ancestorArtifacts(initial) is called
CycAncestorArtifacts ==
    \E initial \in SeqsUpTo(CycNodes, MaxStart) :
        /\ last.op = "none"
        /\ initialNodes' = initial
        /\ LET t == ancestorArtifactsIter(initial, {}, <<>>, 0)
           IN last' = [op |-> "ancestorArtifacts", n |-> NoNode, raised |-> t.raised,
                       ret |-> CountedRet(t)]
        /\ UNCHANGED <<node, files, secHashAttr, valueAttr, cacheDir, thunkCalls,
                       computes, stores, saved, nmut, pc>>

NextCyc == CycAncestors \/ CycAncestorArtifacts

SpecCyc == InitCyc /\ [][NextCyc]_vars

LoopEnded == last.ret[1] = 1
Iterations == last.ret[2]
Expanded == SubSeq(last.ret, 3, Len(last.ret))

RECURSIVE SumLen(_, _)
SumLen(edges, k) == IF k = 0 THEN 0 ELSE Len(edges[k]) + SumLen(edges, k - 1)

\* the number of parent edges of the graph: the entries of every node's
\* parents(), and of every artifact's parentArtifacts()
ParentEdges == SumLen([n \in DOMAIN node |-> parents(n)], Len(node))
ParentArtifactEdges == SumLen([n \in DOMAIN node |-> parentArtifacts(n)], Len(node))

(***************************************************************************)
(* C18: on every graph on CycNodes, cycles and self-loops included, and    *)
(* every starting list, the loops of ancestors() and ancestorArtifacts()   *)
(* end, no node is expanded twice, and the iterations made are at most the *)
(* starting entries plus the parent edges of the graph (the entries of the *)
(* parents() lists for ancestors(), of the parentArtifacts() lists for     *)
(* ancestorArtifacts()).                                                   *)
(***************************************************************************)
C18_TerminatesWithinEdges ==
    /\ last.op = "ancestors" =>
          /\ LoopEnded
          /\ ~last.raised
          /\ NoRepeat(Expanded)
          /\ Iterations <= Len(initialNodes) + ParentEdges
    /\ last.op = "ancestorArtifacts" =>
          /\ LoopEnded
          /\ NoRepeat(Expanded)
          /\ Iterations <= Len(initialNodes) + ParentArtifactEdges

\* ancestors() expanded a Job that is its own parent and lies on a cycle
\* through one of its outputs, and met an expanded node again
C18_Witness ==
    /\ last.op = "ancestors"
    /\ LoopEnded
    /\ Iterations > Len(Expanded)
    /\ \E n, m \in Range(Expanded) :
          /\ n # m
          /\ n \in Range(parents(n))
          /\ m \in Range(parents(n))
          /\ n \in Range(parents(m))

(***************************************************************************)
(* C19: for a list of starting artifacts, the nodes ancestorArtifacts()    *)
(* returns are exactly the Artifact nodes among those ancestors() returns: *)
(* no Job, every artifact the node-level walk reaches, each exactly once.  *)
(***************************************************************************)
C19_ArtifactsAmongAncestors ==
    last.op = "ancestorArtifacts" =>
        /\ Range(last.ret) = {n \in Range(ancestors(initialNodes)) : IsArtifact(node[n])}
        /\ NoRepeat(last.ret)

\* the artifact-level walk went through a Job to an artifact that is not a
\* starting node
C19_Witness ==
    /\ last.op = "ancestorArtifacts"
    /\ \E a \in Range(last.ret) : a \notin Range(initialNodes)
    /\ \E j \in Range(ancestors(initialNodes)) : node[j].kind = "Job"

====
